---- MODULE Spec2Model ----
(***************************************************************************)
(* Press-duration classifier of the Nikobus integration                    *)
(* (nikobus/nkbactuator.py, class NikobusActuator) together with the       *)
(* discovery callback it awaits (nikobus/nikobus.py, button_discovery).    *)
(*                                                                         *)
(* Time is discrete, one tick = 50 ms, the greatest common unit of the     *)
(* 150 ms debounce interval and the 1 s / 2 s / 3 s thresholds.  The       *)
(* monotonic clock is not stored: the model keeps the differences the code *)
(* computes from it (now - _last_press_time, now - start_time, remaining   *)
(* sleep of every task), each saturated at the largest value the code      *)
(* compares it with.                                                       *)
(*                                                                         *)
(* The event loop is cooperative: a task runs from one await to the next   *)
(* without interleaving.  A watcher whose pc is "classified" or "returned" *)
(* is in the middle of such a run, and every other action waits.           *)
(*                                                                         *)
(* A sleep ends exactly when its time is up: the clock does not advance    *)
(* past a task that is due.  The file write the discovery callback awaits  *)
(* for a new address ends, or raises, within MaxWriteTicks.                *)
(*                                                                         *)
(* The cover (nikobus/cover.py: PositionEstimator, NikobusCoverEntity) has *)
(* its own variables and its own specifications, SpecEstimator for the     *)
(* estimator alone and SpecCover for the entity; its clock ticks in        *)
(* seconds (SpecEstimator) or in steps of TickSeconds (SpecCover).  Each    *)
(* specification leaves the other component's variables unchanged.        *)
(* A service call of the entity is a coroutine that is suspended at the    *)
(* await of a transport command; calls interleave at these awaits, and a   *)
(* command returns or raises.                                              *)
(***************************************************************************)
EXTENDS Integers, Sequences, FiniteSets, TLC

\* ---------------------------------------------------------------- bounds
Addresses == {"A", "B"}
MaxTimerTasks == 6
MaxWriteTicks == 2
MaxElapsed == 100
MaxAfterStop == 2
MaxRequests == 2
MaxMotionSeconds == 32

\* ------------------------------------------------------------- constants
DebounceTicks == 3
SHORT_PRESS == 20
MEDIUM_PRESS == 40
LONG_PRESS == 60
DurationInSeconds == 30

\* SpecCover advances the clock by a tenth of the full travel time.
TickSeconds == DurationInSeconds \div 10

None == "None"
NoTask == [address |-> None, elapsed |-> 0, sleep |-> 0, pc |-> "none"]

VARIABLES
    last_address,        \* self._last_address
    last_press_age,      \* now - self._last_press_time, saturated at DebounceTicks
    press_task,          \* self._press_task: the release watcher, or NoTask
    press_task_active,   \* self._press_task_active
    timer_tasks,         \* self._timer_tasks
    dict_button_data,    \* addresses in Nikobus.dict_button_data["nikobus_button"]
    fired,               \* events handed to hass.bus.async_fire by the last step
    discovery_calls,     \* addresses the discovery callback was invoked with by the last step
    stale,               \* history: addresses whose session was superseded while its watcher was polling
    order,               \* history: stages of the current watcher's release handling
    runs,                \* history: classifications run during the current physical press (saturated at 2)
    last_signal_address, \* history: address of the most recent signal
    estimator,           \* PositionEstimator: _start_time (as now - _start_time), _direction, position
    estimate,            \* value returned by the get_position() call of the last step
    stops,               \* history: stop() calls since the last start() (saturated at 2)
    frozen,              \* history: position computed by the first stop() since the last start()
    since_stop,          \* history: seconds since that stop()
    after_stop,          \* history: the last two get_position() results since that stop()
    cover_position,      \* NikobusCoverEntity._position
    cover_direction,     \* NikobusCoverEntity._direction
    in_motion,           \* NikobusCoverEntity._in_motion
    movement_task,       \* NikobusCoverEntity._movement_task: "None", "running" or "done"
    broadcast_tasks,     \* live-position tasks created and not yet finished
    requests,            \* the service calls in flight, each suspended at an await
    last_command,        \* history: the last command handed to the transport
    outcome              \* the service call that ended in the last step

press_vars == <<last_address, last_press_age, press_task, press_task_active, timer_tasks,
                dict_button_data, fired, discovery_calls, stale, order, runs, last_signal_address>>

estimator_history == <<stops, frozen, since_stop, after_stop>>

entity_vars == <<cover_position, cover_direction, in_motion, movement_task,
                 broadcast_tasks, requests, last_command, outcome>>

cover_vars == <<estimator, estimate, estimator_history, entity_vars>>

vars == <<press_vars, cover_vars>>

history == <<stale, order, runs, last_signal_address>>

Min(a, b) == IF a < b THEN a ELSE b

Event(name, address) == [name |-> name, address |-> address]

TimerEventName(duration) ==
    CASE duration = SHORT_PRESS -> "nikobus_timer_1"
      [] duration = MEDIUM_PRESS -> "nikobus_timer_2"
      [] duration = LONG_PRESS -> "nikobus_timer_3"

TimerEventNames == {"nikobus_timer_1", "nikobus_timer_2", "nikobus_timer_3"}

ClassificationEventNames ==
    {"nikobus_short_button_pressed", "nikobus_button_pressed_1", "nikobus_button_pressed_2",
     "nikobus_button_pressed_3", "nikobus_long_button_pressed"}

\* ------------------------------------------------------- classification
\* Variant: the short branch also publishes the long-press event.
HandleShortPress_AlsoLong(address, duration) ==
    <<Event("nikobus_short_button_pressed", address),
      Event("nikobus_long_button_pressed", address)>>

HandleShortPress(address, duration) ==
    <<Event("nikobus_short_button_pressed", address)>>

\* Variant: the first test compares with the wrong threshold.
HandleMediumPress_WrongThreshold(address, duration) ==
    IF duration < SHORT_PRESS THEN <<Event("nikobus_button_pressed_1", address)>>
    ELSE IF duration < LONG_PRESS THEN <<Event("nikobus_button_pressed_2", address)>>
    ELSE <<Event("nikobus_button_pressed_3", address)>>

HandleMediumPress(address, duration) ==
    IF duration < MEDIUM_PRESS THEN <<Event("nikobus_button_pressed_1", address)>>
    ELSE IF duration < LONG_PRESS THEN <<Event("nikobus_button_pressed_2", address)>>
    ELSE <<Event("nikobus_button_pressed_3", address)>>

HandleLongPress(address, duration) ==
    <<Event("nikobus_long_button_pressed", address)>>

\* Variant: the longest bucket publishes the long-press event only.
ProcessPressDuration_SingleLong(address, duration) ==
    IF duration < SHORT_PRESS THEN HandleShortPress(address, duration)
    ELSE IF duration < MEDIUM_PRESS THEN HandleMediumPress(address, duration)
    ELSE IF duration < LONG_PRESS THEN HandleLongPress(address, duration)
    ELSE <<Event("nikobus_long_button_pressed", address)>>

ProcessPressDuration(address, duration) ==
    IF duration < SHORT_PRESS THEN HandleShortPress(address, duration)
    ELSE IF duration < MEDIUM_PRESS THEN HandleMediumPress(address, duration)
    ELSE IF duration < LONG_PRESS THEN HandleLongPress(address, duration)
    ELSE <<Event("nikobus_button_pressed_3", address),
           Event("nikobus_long_button_pressed", address)>>

\* ------------------------------------------------------------ scheduling
WatcherRunning == press_task.pc \in {"classified", "returned"}

NewWatcher(address) ==
    [address |-> address, elapsed |-> 0, sleep |-> DebounceTicks, pc |-> "sleep"]

NewTimer(address, duration) ==
    [address |-> address, duration |-> duration, sleep |-> duration, state |-> "sleeping"]

StartPressTask(address) ==
    IF ~press_task_active
    THEN /\ press_task_active' = TRUE
         /\ press_task' = NewWatcher(address)
         /\ order' = <<>>
    ELSE UNCHANGED <<press_task_active, press_task, order>>

StartTimerTasks(address) ==
    timer_tasks' = timer_tasks \o <<NewTimer(address, SHORT_PRESS),
                                    NewTimer(address, MEDIUM_PRESS),
                                    NewTimer(address, LONG_PRESS)>>

\* Variant: the reset leaves the timer list as it is.
ResetState_KeepsTimers ==
    /\ last_address' = None
    /\ press_task_active' = FALSE
    /\ press_task' = NoTask
    /\ timer_tasks' = timer_tasks

ResetState ==
    /\ last_address' = None
    /\ press_task_active' = FALSE
    /\ press_task' = NoTask
    /\ timer_tasks' = <<>>

\* ---------------------------------------------------- PositionEstimator
\* Python's None in a numeric slot; a direction of 0 is None as well.
NoValue == -1
NotCalled == -2

Max(a, b) == IF a > b THEN a ELSE b

NewEstimator == [start_time |-> NoValue, direction |-> 0, position |-> NoValue]

EstStart(est, direction, position) ==
    LET d == IF direction = "opening" THEN 1 ELSE -1
    IN [start_time |-> 0,
        direction |-> d,
        position |-> IF position # NoValue THEN position
                     ELSE IF d = 1 THEN 0 ELSE 100]

\* Variant: the progress is scaled by 50 instead of 100.
EstGetPosition_HalfProgress(est) ==
    IF est.start_time = NoValue \/ est.direction = 0 \/ est.position = NoValue
    THEN NoValue
    ELSE LET new_position ==
                 (est.position * DurationInSeconds + est.start_time * 50 * est.direction)
                     \div DurationInSeconds
         IN Max(0, Min(100, new_position))

\* Variant: the lower clamp is missing.
EstGetPosition_NoLowerClamp(est) ==
    IF est.start_time = NoValue \/ est.direction = 0 \/ est.position = NoValue
    THEN NoValue
    ELSE LET new_position ==
                 (est.position * DurationInSeconds + est.start_time * 100 * est.direction)
                     \div DurationInSeconds
         IN Min(100, new_position)

\* int(max(0, min(100, position + elapsed / duration * 100 * direction))):
\* the clamped value is not negative, so int() is the floor, and the floor of
\* the quotient commutes with the clamp to the integers 0 and 100.
EstGetPosition(est) ==
    IF est.start_time = NoValue \/ est.direction = 0 \/ est.position = NoValue
    THEN NoValue
    ELSE LET new_position ==
                 (est.position * DurationInSeconds + est.start_time * 100 * est.direction)
                     \div DurationInSeconds
         IN Max(0, Min(100, new_position))

\* Variant: stop() finalizes the position but keeps direction and start time.
EstStop_KeepsRunning(est) ==
    [start_time |-> est.start_time,
     direction |-> est.direction,
     position |-> IF est.start_time # NoValue THEN EstGetPosition(est) ELSE est.position]

EstStop(est) ==
    [start_time |-> NoValue,
     direction |-> 0,
     position |-> IF est.start_time # NoValue THEN EstGetPosition(est) ELSE est.position]

\* A service call: the coroutine's arguments and position, the commands it
\* handed to the transport, and what it saw (for the claims).
NoRequest ==
    [kind |-> "none", pc |-> "idle", direction |-> None, target |-> NoValue,
     deadline |-> NoValue, sent |-> <<>>, pre_direction |-> None, alone |-> TRUE,
     overtaken |-> FALSE]

\* How a service call ended: "done", or where it raised.  Only the end of a
\* call that no other call interleaved with is recorded.
NoOutcome ==
    [kind |-> "none", result |-> "none", sent |-> <<>>, pre_direction |-> None]

Outcome(r, result) ==
    IF r.alone
    THEN [kind |-> r.kind, result |-> result, sent |-> r.sent,
          pre_direction |-> r.pre_direction]
    ELSE NoOutcome

CoverInit ==
    /\ cover_position = 100
    /\ cover_direction = None
    /\ in_motion = FALSE
    /\ movement_task = "None"
    /\ broadcast_tasks = 0
    /\ requests = [s \in 1..MaxRequests |-> NoRequest]
    /\ last_command = "none"
    /\ outcome = NoOutcome
    /\ estimator = NewEstimator
    /\ estimate = NotCalled
    /\ stops = 0
    /\ frozen = NoValue
    /\ since_stop = 0
    /\ after_stop = <<>>

\* --------------------------------------------------------------- actions
Init ==
    /\ last_address = None
    /\ last_press_age = DebounceTicks
    /\ press_task = NoTask
    /\ press_task_active = FALSE
    /\ timer_tasks = <<>>
    /\ dict_button_data \in SUBSET Addresses
    /\ fired = <<>>
    /\ discovery_calls = <<>>
    /\ stale = {}
    /\ order = <<>>
    /\ runs = 0
    /\ last_signal_address = None
    /\ CoverInit

\* Variant: a repeat signal for the active address starts timers again.
HandleButtonPress_RepeatAddsTimers(address) ==
    /\ UNCHANGED cover_vars
    /\ ~WatcherRunning
    /\ Len(timer_tasks) + 3 <= MaxTimerTasks
    /\ IF last_address # address
       THEN /\ last_address' = address
            /\ last_press_age' = 0
            /\ StartPressTask(address)
            /\ StartTimerTasks(address)
            /\ stale' = IF last_address # None /\ press_task.pc = "sleep"
                        THEN (stale \cup {last_address}) \ {address}
                        ELSE stale \ {address}
       ELSE /\ last_press_age' = 0
            /\ StartTimerTasks(address)
            /\ UNCHANGED <<last_address, press_task, press_task_active, stale, order>>
    /\ runs' = IF address = last_signal_address /\ last_press_age < DebounceTicks
               THEN runs ELSE 0
    /\ last_signal_address' = address
    /\ fired' = <<>>
    /\ discovery_calls' = <<>>
    /\ UNCHANGED dict_button_data

HandleButtonPress(address) ==
    /\ UNCHANGED cover_vars
    /\ ~WatcherRunning
    /\ IF last_address # address
       THEN /\ Len(timer_tasks) + 3 <= MaxTimerTasks
            /\ last_address' = address
            /\ last_press_age' = 0
            /\ StartPressTask(address)
            /\ StartTimerTasks(address)
            /\ stale' = IF last_address # None /\ press_task.pc = "sleep"
                        THEN (stale \cup {last_address}) \ {address}
                        ELSE stale \ {address}
       ELSE /\ last_press_age' = 0
            /\ UNCHANGED <<last_address, press_task, press_task_active, timer_tasks,
                           stale, order>>
    /\ runs' = IF address = last_signal_address /\ last_press_age < DebounceTicks
               THEN runs ELSE 0
    /\ last_signal_address' = address
    /\ fired' = <<>>
    /\ discovery_calls' = <<>>
    /\ UNCHANGED dict_button_data

\* Variant: a firing timer also invokes the discovery callback.
FireEventAfterDuration_Discovers(i) ==
    /\ UNCHANGED cover_vars
    /\ ~WatcherRunning
    /\ i \in DOMAIN timer_tasks
    /\ timer_tasks[i].state = "sleeping"
    /\ timer_tasks[i].sleep = 0
    /\ fired' = <<Event(TimerEventName(timer_tasks[i].duration), timer_tasks[i].address)>>
    /\ timer_tasks' = [timer_tasks EXCEPT ![i].state = "done"]
    /\ discovery_calls' = <<timer_tasks[i].address>>
    /\ UNCHANGED <<last_address, last_press_age, press_task, press_task_active,
                   dict_button_data, history>>

FireEventAfterDuration(i) ==
    /\ UNCHANGED cover_vars
    /\ ~WatcherRunning
    /\ i \in DOMAIN timer_tasks
    /\ timer_tasks[i].state = "sleeping"
    /\ timer_tasks[i].sleep = 0
    /\ fired' = <<Event(TimerEventName(timer_tasks[i].duration), timer_tasks[i].address)>>
    /\ timer_tasks' = [timer_tasks EXCEPT ![i].state = "done"]
    /\ discovery_calls' = <<>>
    /\ UNCHANGED <<last_address, last_press_age, press_task, press_task_active,
                   dict_button_data, history>>

\* Variant: release is judged by the time since the session started instead
\* of the time since the last signal.
WaitForReleaseWake_SinceStart ==
    /\ UNCHANGED cover_vars
    /\ press_task.pc = "sleep"
    /\ press_task.sleep = 0
    /\ IF press_task.elapsed >= DebounceTicks
       THEN /\ fired' = ProcessPressDuration(press_task.address, press_task.elapsed)
            /\ press_task' = [press_task EXCEPT !.pc = "classified"]
            /\ order' = Append(order, "event")
            /\ runs' = Min(runs + 1, 2)
       ELSE /\ fired' = <<>>
            /\ press_task' = [press_task EXCEPT !.sleep = DebounceTicks]
            /\ UNCHANGED <<order, runs>>
    /\ discovery_calls' = <<>>
    /\ UNCHANGED <<last_address, last_press_age, press_task_active, timer_tasks,
                   dict_button_data, stale, last_signal_address>>

WaitForReleaseWake ==
    /\ UNCHANGED cover_vars
    /\ press_task.pc = "sleep"
    /\ press_task.sleep = 0
    /\ IF last_press_age >= DebounceTicks
       THEN /\ fired' = ProcessPressDuration(press_task.address, press_task.elapsed)
            /\ press_task' = [press_task EXCEPT !.pc = "classified"]
            /\ order' = Append(order, "event")
            /\ runs' = Min(runs + 1, 2)
       ELSE /\ fired' = <<>>
            /\ press_task' = [press_task EXCEPT !.sleep = DebounceTicks]
            /\ UNCHANGED <<order, runs>>
    /\ discovery_calls' = <<>>
    /\ UNCHANGED <<last_address, last_press_age, press_task_active, timer_tasks,
                   dict_button_data, stale, last_signal_address>>

\* Variant: the watcher resets the state before it awaits the callback.
ButtonDiscovery_AfterReset ==
    /\ UNCHANGED cover_vars
    /\ press_task.pc = "classified"
    /\ discovery_calls' = <<press_task.address>>
    /\ order' = order \o <<"teardown", "discovery">>
    /\ last_address' = None
    /\ press_task_active' = FALSE
    /\ timer_tasks' = <<>>
    /\ IF press_task.address \notin dict_button_data
       THEN /\ dict_button_data' = dict_button_data \cup {press_task.address}
            /\ press_task' = [press_task EXCEPT !.pc = "writing", !.sleep = MaxWriteTicks]
       ELSE /\ press_task' = [press_task EXCEPT !.pc = "returned"]
            /\ UNCHANGED dict_button_data
    /\ fired' = <<>>
    /\ UNCHANGED <<last_press_age, stale, runs, last_signal_address>>

ButtonDiscovery ==
    /\ UNCHANGED cover_vars
    /\ press_task.pc = "classified"
    /\ discovery_calls' = <<press_task.address>>
    /\ order' = Append(order, "discovery")
    /\ IF press_task.address \notin dict_button_data
       THEN /\ dict_button_data' = dict_button_data \cup {press_task.address}
            /\ press_task' = [press_task EXCEPT !.pc = "writing", !.sleep = MaxWriteTicks]
       ELSE /\ press_task' = [press_task EXCEPT !.pc = "returned"]
            /\ UNCHANGED dict_button_data
    /\ fired' = <<>>
    /\ UNCHANGED <<last_address, last_press_age, press_task_active, timer_tasks,
                   stale, runs, last_signal_address>>

WriteJsonDataDone ==
    /\ UNCHANGED cover_vars
    /\ press_task.pc = "writing"
    /\ press_task' = [press_task EXCEPT !.pc = "returned"]
    /\ fired' = <<>>
    /\ discovery_calls' = <<>>
    /\ UNCHANGED <<last_address, last_press_age, press_task_active, timer_tasks,
                   dict_button_data, history>>

WriteJsonDataRaise ==
    /\ UNCHANGED cover_vars
    /\ press_task.pc = "writing"
    /\ press_task' = [press_task EXCEPT !.pc = "failed"]
    /\ fired' = <<>>
    /\ discovery_calls' = <<>>
    /\ UNCHANGED <<last_address, last_press_age, press_task_active, timer_tasks,
                   dict_button_data, history>>

WaitForReleaseFinish ==
    /\ UNCHANGED cover_vars
    /\ press_task.pc = "returned"
    /\ ResetState
    /\ order' = Append(order, "teardown")
    /\ stale' = {}
    /\ fired' = <<>>
    /\ discovery_calls' = <<>>
    /\ UNCHANGED <<last_press_age, dict_button_data, runs, last_signal_address>>

Tick ==
    /\ UNCHANGED cover_vars
    /\ ~WatcherRunning
    /\ ~(press_task.pc \in {"sleep", "writing"} /\ press_task.sleep = 0)
    /\ \A i \in DOMAIN timer_tasks :
           ~(timer_tasks[i].state = "sleeping" /\ timer_tasks[i].sleep = 0)
    /\ last_press_age' = Min(last_press_age + 1, DebounceTicks)
    /\ press_task' = IF press_task.pc = "sleep"
                     THEN [press_task EXCEPT !.sleep = @ - 1,
                                             !.elapsed = Min(@ + 1, LONG_PRESS)]
                     ELSE IF press_task.pc = "writing"
                     THEN [press_task EXCEPT !.sleep = @ - 1]
                     ELSE press_task
    /\ timer_tasks' = [i \in DOMAIN timer_tasks |->
                          IF timer_tasks[i].state = "sleeping"
                          THEN [timer_tasks[i] EXCEPT !.sleep = @ - 1]
                          ELSE timer_tasks[i]]
    /\ fired' = <<>>
    /\ discovery_calls' = <<>>
    /\ UNCHANGED <<last_address, press_task_active, dict_button_data, history>>

Next ==
    \/ \E address \in Addresses : HandleButtonPress(address)
    \/ \E i \in 1..MaxTimerTasks : FireEventAfterDuration(i)
    \/ WaitForReleaseWake
    \/ ButtonDiscovery
    \/ WriteJsonDataDone
    \/ WriteJsonDataRaise
    \/ WaitForReleaseFinish
    \/ Tick

Spec == Init /\ [][Next]_vars

\* ------------------------------------------- PositionEstimator on its own
Directions == {"opening", "closing"}
StartPositions == {NoValue} \cup 0..100

EstimatorStart(direction, position) ==
    /\ estimator.start_time = NoValue
    /\ estimator' = EstStart(estimator, direction, position)
    /\ estimate' = NotCalled
    /\ stops' = 0
    /\ frozen' = NoValue
    /\ since_stop' = 0
    /\ after_stop' = <<>>
    /\ UNCHANGED <<press_vars, entity_vars>>

EstimatorGetPosition ==
    /\ estimate' = EstGetPosition(estimator)
    /\ after_stop' = IF stops = 0 THEN after_stop
                     ELSE LET r == [value |-> EstGetPosition(estimator), at |-> since_stop]
                          IN IF Len(after_stop) < 2 THEN Append(after_stop, r)
                             ELSE <<after_stop[2], r>>
    /\ UNCHANGED <<estimator, stops, frozen, since_stop, press_vars, entity_vars>>

EstimatorStop ==
    /\ estimator' = EstStop(estimator)
    /\ estimate' = NotCalled
    /\ stops' = Min(stops + 1, 2)
    /\ frozen' = IF stops = 0 THEN EstStop(estimator).position ELSE frozen
    /\ UNCHANGED <<since_stop, after_stop, press_vars, entity_vars>>

EstimatorTick ==
    /\ \/ estimator.start_time # NoValue /\ estimator.start_time < MaxElapsed
       \/ stops > 0 /\ since_stop < MaxAfterStop
    /\ estimator' = IF estimator.start_time # NoValue /\ estimator.start_time < MaxElapsed
                    THEN [estimator EXCEPT !.start_time = @ + 1]
                    ELSE estimator
    /\ since_stop' = IF stops > 0 /\ since_stop < MaxAfterStop THEN since_stop + 1 ELSE since_stop
    /\ estimate' = NotCalled
    /\ UNCHANGED <<stops, frozen, after_stop, press_vars, entity_vars>>

NextEstimator ==
    \/ \E direction \in Directions, position \in StartPositions :
           EstimatorStart(direction, position)
    \/ EstimatorGetPosition
    \/ EstimatorStop
    \/ EstimatorTick

InitEstimator == Init /\ dict_button_data = {}

SpecEstimator == InitEstimator /\ [][NextEstimator]_vars

\* ------------------------------------------------- NikobusCoverEntity
Targets == {50, 100}

Command(direction) == IF direction = "opening" THEN "open_cover" ELSE "close_cover"

Busy(s) == requests[s].pc # "idle"

\* a new call takes the first free slot
Free(s) == ~Busy(s) /\ \A t \in 1..(s - 1) : Busy(t)

\* A call that starts marks every call in flight, and itself, as interleaved,
\* and a set-position call in flight as overtaken by a later request.
Others(s, reqs) ==
    [t \in 1..MaxRequests |->
        IF t # s /\ reqs[t].pc # "idle"
        THEN [reqs[t] EXCEPT !.alone = FALSE, !.sent = <<>>, !.pre_direction = None,
                             !.overtaken = (reqs[t].kind = "set_position")]
        ELSE reqs[t]]

\* The commands a call handed to the transport, kept while no other call
\* interleaves with it.
Sent(r, command) == IF r.alone THEN Append(r.sent, command) ELSE r.sent

NewRequest(s, kind, direction, target) ==
    LET alone == \A t \in 1..MaxRequests : t = s \/ ~Busy(t)
    IN [NoRequest EXCEPT !.kind = kind, !.direction = direction, !.target = target,
                         !.pre_direction = IF alone THEN cover_direction ELSE None,
                         !.alone = alone]

\* seconds of travel for |target - current| percent, rounded up to the tick
TravelSeconds(current, target) ==
    LET distance == IF target > current THEN target - current ELSE current - target
    IN (distance * DurationInSeconds + 99) \div 100

\* StartMovement with the estimator left for after the awaited command.
StartMovement_EstimatorNotStarted(s, r) ==
    IF in_motion
    THEN /\ last_command' = "stop_cover"
         /\ requests' = [Others(s, requests) EXCEPT
                            ![s] = [r EXCEPT !.pc = "await_stop", !.sent = Sent(r, "stop_cover")]]
         /\ UNCHANGED <<cover_position, cover_direction, in_motion, estimator>>
    ELSE /\ last_command' = Command(r.direction)
         /\ cover_direction' = r.direction
         /\ in_motion' = TRUE
         /\ requests' = [Others(s, requests) EXCEPT
                            ![s] = [r EXCEPT !.pc = "await_operate",
                                             !.sent = Sent(r, Command(r.direction))]]
         /\ UNCHANGED <<cover_position, estimator>>

\* Variant: a movement started from Stopped assumes the cover at the rail.
StartMovement_SnapsToRail(s, r) ==
    IF in_motion
    THEN /\ last_command' = "stop_cover"
         /\ requests' = [Others(s, requests) EXCEPT
                            ![s] = [r EXCEPT !.pc = "await_stop", !.sent = Sent(r, "stop_cover")]]
         /\ UNCHANGED <<cover_position, cover_direction, in_motion, estimator>>
    ELSE /\ last_command' = Command(r.direction)
         /\ cover_direction' = r.direction
         /\ in_motion' = TRUE
         /\ cover_position' = (IF r.direction = "opening" THEN 0 ELSE 100)
         /\ estimator' = EstStart(estimator, r.direction, NoValue)
         /\ requests' = [Others(s, requests) EXCEPT
                            ![s] = [r EXCEPT !.pc = "await_operate",
                                             !.sent = Sent(r, Command(r.direction))]]

\* _start_movement up to its first await: the implicit stop if the cover is
\* moving, otherwise lines 219-222 up to the open/close command.
StartMovement(s, r) ==
    IF in_motion
    THEN /\ last_command' = "stop_cover"
         /\ requests' = [Others(s, requests) EXCEPT
                            ![s] = [r EXCEPT !.pc = "await_stop", !.sent = Sent(r, "stop_cover")]]
         /\ UNCHANGED <<cover_position, cover_direction, in_motion, estimator>>
    ELSE /\ last_command' = Command(r.direction)
         /\ cover_direction' = r.direction
         /\ in_motion' = TRUE
         /\ estimator' = EstStart(estimator, r.direction, cover_position)
         /\ requests' = [Others(s, requests) EXCEPT
                            ![s] = [r EXCEPT !.pc = "await_operate",
                                             !.sent = Sent(r, Command(r.direction))]]
         /\ UNCHANGED cover_position

AsyncOpenCover(s) ==
    /\ Free(s)
    /\ StartMovement(s, NewRequest(s, "open", "opening", NoValue))
    /\ outcome' = NoOutcome
    /\ UNCHANGED <<movement_task, estimator_history, press_vars>>
    /\ estimate' = NotCalled
    /\ UNCHANGED broadcast_tasks

AsyncCloseCover(s) ==
    /\ Free(s)
    /\ StartMovement(s, NewRequest(s, "close", "closing", NoValue))
    /\ outcome' = NoOutcome
    /\ UNCHANGED <<movement_task, estimator_history, press_vars>>
    /\ estimate' = NotCalled
    /\ UNCHANGED broadcast_tasks

AsyncStopCover(s) ==
    /\ Free(s)
    /\ requests' = [Others(s, requests) EXCEPT
                       ![s] = [NewRequest(s, "stop", None, NoValue) EXCEPT
                                   !.pc = "await_stop",
                                   !.sent = Sent(NewRequest(s, "stop", None, NoValue),
                                                 "stop_cover")]]
    /\ outcome' = NoOutcome
    /\ UNCHANGED <<cover_position, cover_direction, in_motion, movement_task,
                   estimator, estimator_history, press_vars>>
    /\ estimate' = NotCalled
    /\ last_command' = "stop_cover"
    /\ UNCHANGED broadcast_tasks

\* self._position > target_position raises TypeError when _position is None.
AsyncSetCoverPosition(s, target) ==
    /\ Free(s)
    /\ \A t \in 1..MaxRequests : requests[t].kind # "set_position"
    /\ IF cover_position = NoValue
       THEN /\ outcome' = Outcome(NewRequest(s, "set_position", None, target), "type_error")
            /\ requests' = Others(s, requests)
            /\ UNCHANGED <<cover_position, cover_direction, in_motion, estimator,
                           last_command>>
       ELSE /\ StartMovement(s, [NewRequest(s, "set_position",
                                     IF cover_position > target THEN "closing" ELSE "opening",
                                     target)
                                 EXCEPT !.deadline = TravelSeconds(cover_position, target)])
            /\ outcome' = NoOutcome
    /\ UNCHANGED <<movement_task, estimator_history, press_vars>>
    /\ estimate' = NotCalled
    /\ UNCHANGED broadcast_tasks

\* StopCoverReturns with the new segment started from the position held
\* before the stop instead of the one the stop froze.
StopCoverReturns_RestartsFromOldPosition(s) ==
    /\ requests[s].pc \in {"await_stop", "await_auto_stop"}
    /\ LET r == requests[s]
           stopped == EstStop(estimator)
       IN IF r.kind = "stop" \/ r.pc = "await_auto_stop"
          THEN /\ estimator' = stopped
               /\ cover_position' = stopped.position
               /\ in_motion' = FALSE
               /\ cover_direction' = None
               /\ requests' = [requests EXCEPT ![s] = NoRequest]
               /\ outcome' = Outcome(r, "done")
               /\ UNCHANGED last_command
          ELSE /\ estimator' = EstStart(stopped, r.direction, cover_position)
               /\ cover_position' = stopped.position
               /\ in_motion' = TRUE
               /\ cover_direction' = r.direction
               /\ requests' = [requests EXCEPT
                                  ![s] = [r EXCEPT !.pc = "await_operate",
                                                   !.sent = Sent(r, Command(r.direction))]]
               /\ outcome' = NoOutcome
               /\ last_command' = Command(r.direction)
    /\ UNCHANGED <<movement_task, estimator_history, press_vars>>
    /\ estimate' = NotCalled
    /\ UNCHANGED broadcast_tasks

\* The await on stop_cover returns: lines 201-205, and for the implicit stop
\* of _start_movement its lines 219-222 in the same run.
StopCoverReturns(s) ==
    /\ requests[s].pc \in {"await_stop", "await_auto_stop"}
    /\ LET r == requests[s]
           stopped == EstStop(estimator)
       IN IF r.kind = "stop" \/ r.pc = "await_auto_stop"
          THEN /\ estimator' = stopped
               /\ cover_position' = stopped.position
               /\ in_motion' = FALSE
               /\ cover_direction' = None
               /\ requests' = [requests EXCEPT ![s] = NoRequest]
               /\ outcome' = Outcome(r, "done")
               /\ UNCHANGED last_command
          ELSE /\ estimator' = EstStart(stopped, r.direction, stopped.position)
               /\ cover_position' = stopped.position
               /\ in_motion' = TRUE
               /\ cover_direction' = r.direction
               /\ requests' = [requests EXCEPT
                                  ![s] = [r EXCEPT !.pc = "await_operate",
                                                   !.sent = Sent(r, Command(r.direction))]]
               /\ outcome' = NoOutcome
               /\ last_command' = Command(r.direction)
    /\ UNCHANGED <<movement_task, estimator_history, press_vars>>
    /\ estimate' = NotCalled
    /\ UNCHANGED broadcast_tasks

\* Variant: a live-position task is created whether or not one is running.
OperateCoverReturns_AlwaysCreates(s) ==
    /\ requests[s].pc = "await_operate"
    /\ movement_task' = "running"
    /\ broadcast_tasks' = Min(broadcast_tasks + 1, 2)
    /\ IF requests[s].kind = "set_position"
       THEN /\ requests' = [requests EXCEPT ![s].pc = "supervise"]
            /\ outcome' = NoOutcome
       ELSE /\ requests' = [requests EXCEPT ![s] = NoRequest]
            /\ outcome' = Outcome(requests[s], "done")
    /\ UNCHANGED <<cover_position, cover_direction, in_motion,
                   estimator, estimator_history, press_vars>>
    /\ estimate' = NotCalled
    /\ UNCHANGED last_command

\* The await on open_cover / close_cover returns: lines 223-224.
OperateCoverReturns(s) ==
    /\ requests[s].pc = "await_operate"
    /\ movement_task' = IF movement_task \in {"None", "done"} THEN "running" ELSE movement_task
    /\ broadcast_tasks' = IF movement_task \in {"None", "done"}
                          THEN broadcast_tasks + 1 ELSE broadcast_tasks
    /\ IF requests[s].kind = "set_position"
       THEN /\ requests' = [requests EXCEPT ![s].pc = "supervise"]
            /\ outcome' = NoOutcome
       ELSE /\ requests' = [requests EXCEPT ![s] = NoRequest]
            /\ outcome' = Outcome(requests[s], "done")
    /\ UNCHANGED <<cover_position, cover_direction, in_motion,
                   estimator, estimator_history, press_vars>>
    /\ estimate' = NotCalled
    /\ UNCHANGED last_command

\* Variant: a stop that raised is finalized all the same.
CommandRaises_FinalizesAnyway(s) ==
    /\ requests[s].pc \in {"await_stop", "await_operate", "await_auto_stop"}
    /\ requests' = [requests EXCEPT ![s] = NoRequest]
    /\ outcome' = Outcome(requests[s], "raised_" \o requests[s].pc)
    /\ estimator' = EstStop(estimator)
    /\ cover_position' = EstStop(estimator).position
    /\ in_motion' = FALSE
    /\ cover_direction' = None
    /\ UNCHANGED <<movement_task, estimator_history, press_vars>>
    /\ estimate' = NotCalled
    /\ last_command' = "failed"
    /\ UNCHANGED broadcast_tasks

\* The transport raises: the exception leaves the coroutine at the await.
CommandRaises(s) ==
    /\ requests[s].pc \in {"await_stop", "await_operate", "await_auto_stop"}
    /\ requests' = [requests EXCEPT ![s] = NoRequest]
    /\ outcome' = Outcome(requests[s], "raised_" \o requests[s].pc)
    /\ UNCHANGED <<cover_position, cover_direction, in_motion, movement_task,
                   estimator, estimator_history, press_vars>>
    /\ estimate' = NotCalled
    /\ last_command' = "failed"
    /\ UNCHANGED broadcast_tasks

\* _update_position_to_target: the deadline of a set-position call is up and
\* the automatic stop is issued.
UpdatePositionToTarget(s) ==
    /\ requests[s].pc = "supervise"
    /\ requests[s].deadline <= 0
    /\ requests' = [requests EXCEPT ![s].pc = "await_auto_stop",
                                    ![s].sent = Sent(requests[s], "stop_cover")]
    /\ outcome' = NoOutcome
    /\ UNCHANGED <<cover_position, cover_direction, in_motion, movement_task,
                   estimator, estimator_history, press_vars>>
    /\ estimate' = NotCalled
    /\ last_command' = "stop_cover"
    /\ UNCHANGED broadcast_tasks

\* _update_position_in_real_time: one turn of the live-position loop, which
\* reads the estimate to broadcast while the cover is in motion.
UpdatePositionInRealTime ==
    /\ movement_task = "running"
    /\ movement_task' = IF in_motion THEN movement_task ELSE "done"
    /\ broadcast_tasks' = IF in_motion THEN broadcast_tasks ELSE 0
    /\ outcome' = NoOutcome
    /\ UNCHANGED <<cover_position, cover_direction, in_motion, requests,
                   estimator, estimator_history, press_vars>>
    /\ estimate' = IF in_motion THEN EstGetPosition(estimator) ELSE NotCalled
    /\ UNCHANGED last_command

\* TickSeconds pass.  A transport command takes far less than a tick, so no
\* call is suspended at a command while the clock advances; a set-position
\* call sleeping towards its deadline is, and the clock stops at a deadline
\* until the automatic stop has been issued.
CoverTick ==
    /\ \A s \in 1..MaxRequests : requests[s].pc \in {"idle", "supervise"}
    /\ \A s \in 1..MaxRequests : ~(requests[s].pc = "supervise" /\ requests[s].deadline <= 0)
    /\ \/ estimator.start_time # NoValue /\ estimator.start_time < MaxMotionSeconds
       \/ \E s \in 1..MaxRequests : requests[s].pc = "supervise"
    /\ estimator' = IF estimator.start_time # NoValue /\ estimator.start_time < MaxMotionSeconds
                    THEN [estimator EXCEPT !.start_time = @ + TickSeconds]
                    ELSE estimator
    /\ requests' = [s \in 1..MaxRequests |->
                       IF requests[s].pc = "supervise"
                       THEN [requests[s] EXCEPT !.deadline = @ - TickSeconds]
                       ELSE requests[s]]
    /\ outcome' = NoOutcome
    /\ UNCHANGED <<cover_position, cover_direction, in_motion, movement_task,
                   estimator_history, press_vars>>
    /\ estimate' = NotCalled
    /\ UNCHANGED last_command
    /\ UNCHANGED broadcast_tasks

InitCover ==
    /\ Init
    /\ dict_button_data = {}

NextCover ==
    \/ \E s \in 1..MaxRequests : AsyncOpenCover(s)
    \/ \E s \in 1..MaxRequests : AsyncCloseCover(s)
    \/ \E s \in 1..MaxRequests : AsyncStopCover(s)
    \/ \E s \in 1..MaxRequests, target \in Targets : AsyncSetCoverPosition(s, target)
    \/ \E s \in 1..MaxRequests : StopCoverReturns(s)
    \/ \E s \in 1..MaxRequests : OperateCoverReturns(s)
    \/ \E s \in 1..MaxRequests : CommandRaises(s)
    \/ \E s \in 1..MaxRequests : UpdatePositionToTarget(s)
    \/ UpdatePositionInRealTime
    \/ CoverTick

SpecCover == InitCover /\ [][NextCover]_vars

\* ------------------------------------------ classifier and cover together
\* The classifier and the cover share no state, so every state of either is
\* reached with the other one still as constructed: the classifier runs
\* while no cover command was ever sent, the cover while no signal ever
\* arrived.
PressActions ==
    /\ last_command = "none"
    /\ Next

CoverActions ==
    /\ last_signal_address = None
    /\ NextCover

NextTasks ==
    \/ PressActions
    \/ CoverActions

SpecTasks == InitCover /\ [][NextTasks]_vars

TypeOK ==
    /\ last_address \in Addresses \cup {None}
    /\ last_press_age \in 0..DebounceTicks
    /\ press_task_active \in BOOLEAN
    /\ Len(timer_tasks) <= MaxTimerTasks
    /\ runs \in 0..2

\* ================================================================ claims
IsPrefix(s, t) == Len(s) <= Len(t) /\ \A i \in 1..Len(s) : s[i] = t[i]

Finalizing == press_task.pc = "classified"

\* C1: once a session for B has started while A's watcher was still polling,
\* no duration-timer event carrying address A is published (stated for the
\* runs in which the discovery callback has not raised).
C1_NoTimerEventOfSupersededAddress ==
    press_task.pc # "failed"
        => \A i \in DOMAIN fired :
               fired[i].name \in TimerEventNames => fired[i].address \notin stale

\* C2: once a session for B has started while A's watcher was still polling,
\* A's classification is abandoned: no terminal classification event and no
\* discovery call carries address A, and the watcher that is polling belongs
\* to the address of the new session.
C2_SupersededSessionAbandoned ==
    /\ \A i \in DOMAIN fired :
           fired[i].name \in ClassificationEventNames => fired[i].address \notin stale
    /\ \A i \in DOMAIN discovery_calls : discovery_calls[i] \notin stale
    /\ press_task.pc = "sleep" => press_task.address \notin stale

\* C3: a released press with MEDIUM_PRESS <= d < LONG_PRESS publishes the
\* "held 2" event nikobus_button_pressed_2 for its address and no long-press event.
C3_Held2ForMediumToLong ==
    (Finalizing /\ MEDIUM_PRESS <= press_task.elapsed /\ press_task.elapsed < LONG_PRESS)
        => fired = <<Event("nikobus_button_pressed_2", press_task.address)>>

\* C4: a released press with d < SHORT_PRESS publishes exactly one short-press
\* event for its address and no long-press event.
C4_ShortPress ==
    (Finalizing /\ press_task.elapsed < SHORT_PRESS)
        => fired = <<Event("nikobus_short_button_pressed", press_task.address)>>

C4_Witness ==
    Finalizing /\ press_task.elapsed < SHORT_PRESS /\ Len(fired) = 1

\* C5: a released press with d >= LONG_PRESS publishes held_3 and then
\* long_press for its address, and none of short_press, held_1, held_2.
C5_LongPress ==
    (Finalizing /\ press_task.elapsed >= LONG_PRESS)
        => fired = <<Event("nikobus_button_pressed_3", press_task.address),
                     Event("nikobus_long_button_pressed", press_task.address)>>

C5_Witness ==
    Finalizing /\ press_task.elapsed >= LONG_PRESS /\ Len(fired) = 2

\* C6: a released press with SHORT_PRESS <= d < MEDIUM_PRESS publishes exactly
\* one "held 1" event nikobus_button_pressed_1 and nothing else.
C6_Held1 ==
    (Finalizing /\ SHORT_PRESS <= press_task.elapsed /\ press_task.elapsed < MEDIUM_PRESS)
        => fired = <<Event("nikobus_button_pressed_1", press_task.address)>>

C6_Witness ==
    /\ Finalizing
    /\ SHORT_PRESS <= press_task.elapsed /\ press_task.elapsed < MEDIUM_PRESS
    /\ fired # <<>>

\* C7: while the signals of one physical press keep arriving less than one
\* debounce interval apart the watcher does not finalize (a classification
\* runs only when no signal arrived for a full debounce interval), and one
\* physical press gets at most one classification run.
C7_DebounceIdempotence ==
    /\ Finalizing => last_press_age >= DebounceTicks
    /\ runs <= 1

C7_Witness ==
    /\ Finalizing
    /\ runs = 1
    /\ press_task.elapsed > 2 * DebounceTicks
    /\ last_signal_address = press_task.address
    /\ stale = {}

\* C8: once the terminal classification event of a session has been published,
\* no duration-timer event of that session is published, also while the
\* watcher is suspended in the discovery callback.
C8_NoTimerEventAfterTerminal ==
    \A i \in DOMAIN fired :
        fired[i].name \in TimerEventNames
            => ~(/\ press_task.pc \in {"writing", "returned"}
                 /\ press_task.address = fired[i].address)

\* C9: release handling runs in the order terminal event, discovery callback
\* with the session's address, teardown; until the callback has returned the
\* session is intact (address set, watcher slot and active flag set, timers
\* kept), and after the teardown it is gone.
C9_ReleaseOrder ==
    /\ IsPrefix(order, <<"event", "discovery", "teardown">>)
    /\ discovery_calls # <<>>
           => discovery_calls = <<press_task.address>> /\ order = <<"event", "discovery">>
    /\ (order # <<>> /\ Len(order) < 3)
           => /\ last_address # None
              /\ press_task_active
              /\ press_task # NoTask
              /\ Len(timer_tasks) >= 3
    /\ Len(order) = 3
           => /\ last_address = None
              /\ ~press_task_active
              /\ press_task = NoTask
              /\ timer_tasks = <<>>

C9_Witness ==
    /\ order = <<"event", "discovery", "teardown">>
    /\ last_address = None
    /\ last_signal_address # None

\* C10: the discovery callback is invoked exactly once per classification run
\* (also when the run published two events), with the watcher's address, and
\* by no other step (repeat signal, timer firing, clock).
C10_DiscoveryOncePerRelease ==
    [][/\ (press_task.pc = "classified") <=> (discovery_calls' # <<>>)
       /\ discovery_calls' # <<>> => discovery_calls' = <<press_task.address>>
       /\ (\E i \in DOMAIN fired' : fired'[i].name \in ClassificationEventNames)
              <=> (press_task'.pc = "classified" /\ press_task.pc # "classified")]_vars

C10_Witness ==
    /\ discovery_calls = <<press_task.address>>
    /\ press_task.elapsed = LONG_PRESS
    /\ press_task.pc \in {"writing", "returned"}

\* ------------------------------------------------------ estimator claims
Started == estimator.start_time # NoValue

\* C14: after stop(), every get_position() call returns the frozen position
\* that stop() computed.
C14_EstimateAfterStopIsFrozen ==
    \A i \in DOMAIN after_stop : after_stop[i].value = frozen

\* C15: after stop(), two get_position() calls return the identical value
\* however much time passes between them, and a second stop() leaves the
\* frozen position unchanged.
C15_StopFreezes ==
    stops > 0
        => /\ estimator.position = frozen
           /\ Len(after_stop) = 2 => after_stop[1].value = after_stop[2].value

C15_Witness ==
    /\ stops = 2
    /\ frozen \in 1..99
    /\ Len(after_stop) = 2
    /\ after_stop[1].at < after_stop[2].at

\* C16 as stated: start('opening', 40), 15 s later, full travel 30 s:
\* get_position() returns 65.
C16_Opening40After15Is65 ==
    (/\ estimate # NotCalled
     /\ estimator.direction = 1 /\ estimator.position = 40 /\ estimator.start_time = 15)
        => estimate = 65

\* C16 as amended: start('opening', 40), 15 s later, full travel 30 s:
\* get_position() returns 90 (40 + 15/30*100).
C16_Opening40After15Is90 ==
    (/\ estimate # NotCalled
     /\ estimator.direction = 1 /\ estimator.position = 40 /\ estimator.start_time = 15)
        => estimate = 90

C16_Witness ==
    /\ estimate # NotCalled
    /\ estimator.direction = 1 /\ estimator.position = 40 /\ estimator.start_time = 15

\* C17: while started, get_position() is the truncation of
\* clamp(position + direction * elapsed / duration * 100, 0, 100): it lies in
\* 0..100, is 0 or 100 when the exact value is beyond the rail, and otherwise
\* is the integer part of the exact value; closing from 20 for 100 s gives 0.
C17_EstimateIsClampedTruncation ==
    (estimate # NotCalled /\ Started)
        => LET exact == estimator.position * DurationInSeconds
                          + estimator.direction * estimator.start_time * 100
           IN /\ estimate \in 0..100
              /\ exact <= 0 => estimate = 0
              /\ exact >= 100 * DurationInSeconds => estimate = 100
              /\ (0 < exact /\ exact < 100 * DurationInSeconds)
                     => /\ estimate * DurationInSeconds <= exact
                        /\ exact < (estimate + 1) * DurationInSeconds
              /\ (estimator.direction = -1 /\ estimator.position = 20
                  /\ estimator.start_time = 100) => estimate = 0

C17_Witness ==
    /\ estimate = 0
    /\ estimator.direction = -1 /\ estimator.position = 20 /\ estimator.start_time = 100

\* ------------------------------------------------ cover entity claims
\* A request that ran without any other request in flight has just ended.
Ended(kind, result) == outcome.kind = kind /\ outcome.result = result

\* C11: the cover's persistent position is a number in 0..100 in every
\* reachable state, also after a stop request issued before any motion.
C11_PositionInRange == cover_position \in 0..100

\* C12: an open or close issued while Stopped whose transport command raises
\* leaves the cover Stopped (inMotion false, direction none) with the
\* estimator not started.
C12_FailedCommandLeavesStopped ==
    (/\ outcome.kind \in {"open", "close"}
     /\ outcome.result = "raised_await_operate"
     /\ outcome.pre_direction = None)
    => /\ ~in_motion
       /\ cover_direction = None
       /\ estimator.start_time = NoValue

\* C13: close issued while Opening (open while Closing) sends exactly one
\* stop command followed by exactly one close (open) command; the position
\* frozen by that stop is the persistent position and the start position of
\* the estimator's new segment; the cover ends Closing (Opening).
Reverse(direction) == IF direction = "opening" THEN "closing" ELSE "opening"

Reversed(kind, direction) ==
    /\ Ended(kind, "done")
    /\ outcome.pre_direction = Reverse(direction)

ReversalDone(kind, direction) ==
    Reversed(kind, direction)
    => /\ outcome.sent = <<"stop_cover", Command(direction)>>
       /\ in_motion
       /\ cover_direction = direction
       /\ estimator.direction = (IF direction = "opening" THEN 1 ELSE -1)
       /\ estimator.position = cover_position

ImplicitStopStep(s) ==
    /\ requests[s].kind \in {"open", "close"}
    /\ requests[s].alone
    /\ requests[s].pc = "await_stop"
    /\ requests'[s].pc = "await_operate"

ImplicitStopFreezes ==
    \A s \in 1..MaxRequests :
        ImplicitStopStep(s)
        => /\ estimator'.position = EstGetPosition(estimator)
           /\ cover_position' = EstGetPosition(estimator)
           /\ estimator'.start_time = 0
           /\ requests'[s].sent = <<"stop_cover", Command(requests[s].direction)>>

C13_ReversalStopsThenRestarts ==
    /\ [](ReversalDone("close", "closing") /\ ReversalDone("open", "opening"))
    /\ [][ImplicitStopFreezes]_vars

C13_Witness ==
    /\ Reversed("close", "closing")
    /\ cover_position \in 1..99

\* C18: after set-position starts motion, the automatic stop is issued once
\* the travel time has elapsed, unless a manual stop, open or close arrived
\* first: then the pending deadline never issues a stop command.
AutoStopStep(s) ==
    /\ requests[s].pc = "supervise"
    /\ requests'[s].pc = "await_auto_stop"

SetPositionCalled(s) ==
    /\ requests[s].pc = "idle"
    /\ requests'[s].kind = "set_position"

SetPositionStartsMovement ==
    \A s \in 1..MaxRequests :
        SetPositionCalled(s)
        => LET r == requests'[s]
           IN /\ r.direction = IF r.target < cover_position THEN "closing" ELSE "opening"
              /\ IF in_motion
                 THEN r.pc = "await_stop" /\ (r.alone => r.sent = <<"stop_cover">>)
                 ELSE /\ r.pc = "await_operate"
                      /\ r.alone => r.sent = <<Command(r.direction)>>
                      /\ in_motion'
                      /\ cover_direction' = r.direction

C19_SetPositionChoosesDirection ==
    /\ [](outcome.kind = "set_position" => outcome.result # "type_error")
    /\ [][SetPositionStartsMovement]_vars

\* C20: in every reachable state, the states at the awaits of open, close
\* and stop requests included, inMotion is true iff direction is not none
\* iff the estimator's motion start time is defined.
C20_MotionFlagsAgree ==
    /\ in_motion <=> cover_direction # None
    /\ in_motion <=> estimator.start_time # NoValue
    /\ cover_direction # None
       => estimator.direction = (IF cover_direction = "opening" THEN 1 ELSE -1)

C20_Witness ==
    \E s \in 1..MaxRequests :
        /\ requests[s].kind = "stop"
        /\ requests[s].pc = "await_stop"
        /\ in_motion
        /\ cover_direction = "closing"
        /\ estimator.start_time > 0

\* ------------------------------------------------ press session claims
\* A signal arrived in this step: only handle_button_press moves
\* _last_press_time forward.
SignalStep == last_press_age' < last_press_age

\* C22: a repeat signal for the address of the active session only advances
\* lastSignalTime: no new watcher, no new timers, and the session's start
\* time and active address stay as they were.
C22_RepeatOnlyRefreshes ==
    [][(SignalStep /\ last_signal_address' = last_address)
       => /\ last_press_age' = 0
          /\ UNCHANGED <<last_address, press_task, press_task_active, timer_tasks>>
          /\ fired' = <<>>]_vars

C22_Witness ==
    /\ last_press_age = 0
    /\ press_task.pc = "sleep"
    /\ press_task.elapsed > 0
    /\ last_address = press_task.address
    /\ Len(timer_tasks) = 3

\* ------------------------------------------- cover entity claims, continued
\* A stop completes in this step: an explicit or automatic stop takes the
\* cover out of motion, an implicit one goes on to the open/close command.
ImplicitStopCompletes ==
    \E s \in 1..MaxRequests :
        requests[s].pc = "await_stop" /\ requests'[s].pc = "await_operate"

StopCompletes == (in_motion /\ ~in_motion') \/ ImplicitStopCompletes

\* C21: a stop (explicit, or the implicit stop of a mid-motion open/close)
\* finalizes the estimator, copies the frozen estimate into the persistent
\* position and cancels the live-broadcast loop: once the stop has
\* completed no live-position broadcast task remains scheduled.
C21_StopCancelsBroadcast ==
    [][StopCompletes
       => /\ estimator'.position = EstStop(estimator).position
          /\ cover_position' = EstStop(estimator).position
          /\ movement_task' # "running"]_vars

\* C23: when the stop command of a stop request raises, inMotion, direction,
\* the persistent position and the estimator's start time and start position
\* keep their pre-request values, and no second stop command is sent.
StopRaisedStep ==
    /\ outcome'.kind = "stop"
    /\ outcome'.result = "raised_await_stop"

StopRaised == Ended("stop", "raised_await_stop")

C23_FailedStopChangesNothing ==
    /\ [](StopRaised => /\ cover_direction = outcome.pre_direction
                        /\ in_motion <=> outcome.pre_direction # None
                        /\ outcome.sent = <<"stop_cover">>
                        /\ \A s \in 1..MaxRequests : ~Busy(s))
    /\ [][StopRaisedStep
          => UNCHANGED <<in_motion, cover_direction, cover_position, estimator>>]_vars

C23_Witness ==
    /\ StopRaised
    /\ in_motion
    /\ estimator.start_time > 0

\* C24: the persistent position changes only when a stop is finalized; an
\* open or close issued while Stopped leaves it, and the start position the
\* estimator holds, as they are, and so does every estimate() call.
StopFinalizedStep ==
    \E s \in 1..MaxRequests :
        /\ requests[s].pc \in {"await_stop", "await_auto_stop"}
        /\ requests'[s].pc # requests[s].pc

OpenCloseWhileStopped ==
    /\ ~in_motion
    /\ \E s \in 1..MaxRequests :
           requests[s].pc = "idle" /\ requests'[s].kind \in {"open", "close"}

C24_PositionOnlyMovedByStop ==
    [][/\ cover_position' # cover_position => StopFinalizedStep
       /\ OpenCloseWhileStopped
          => /\ cover_position' = cover_position
             /\ estimator.position # NoValue => estimator'.position = estimator.position
       /\ estimate' # NotCalled => UNCHANGED <<cover_position, estimator>>]_vars

C24_Witness ==
    \E s \in 1..MaxRequests :
        /\ requests[s].kind = "open"
        /\ requests[s].pc = "await_operate"
        /\ requests[s].sent = <<"open_cover">>
        /\ cover_position \in 1..99
        /\ estimator.position = cover_position
        /\ estimator.start_time = 0

\* C27: for any interleaving of open, close and stop requests, once every
\* request has completed the controller state matches the last command
\* handed to the transport: Stopped iff it was stop, Opening iff open,
\* Closing iff close.
AllCompleted == \A s \in 1..MaxRequests : ~Busy(s)

C27_StateMatchesLastCommand ==
    (AllCompleted /\ last_command \in {"open_cover", "close_cover", "stop_cover"})
    => /\ last_command = "stop_cover" <=> ~in_motion
       /\ last_command = "open_cover" <=> (in_motion /\ cover_direction = "opening")
       /\ last_command = "close_cover" <=> (in_motion /\ cover_direction = "closing")

\* ------------------------------------------------------- task claims
\* C28: at most one release watcher and at most one live-position broadcast
\* task of the cover is scheduled at any time; a new watcher or broadcast
\* task is created only when none exists or the previous one has finished.
WatcherCreated ==
    /\ press_task' # press_task
    /\ press_task' = NewWatcher(press_task'.address)

BroadcastCreated == broadcast_tasks' > broadcast_tasks

C28_OneWatcherOneBroadcast ==
    /\ [](/\ broadcast_tasks <= 1
          /\ movement_task = "running" <=> broadcast_tasks = 1)
    /\ [][/\ WatcherCreated => press_task.pc \in {"none", "failed"}
          /\ BroadcastCreated => movement_task \in {"None", "done"}]_vars

C28_Witness ==
    /\ movement_task = "running"
    /\ broadcast_tasks = 1
    /\ \E s \in 1..MaxRequests : requests[s].pc = "await_operate"

\* C25: when the discovery callback raises while the watcher finalizes a
\* press, the session is still torn down, so that whenever a session is
\* active (then or after a later signal) a release watcher is running for
\* it and no watcher that ended on the exception is left in the slot.
WatcherAlive == press_task.pc \in {"sleep", "classified", "writing", "returned"}

C25_RaiseStillTearsDown ==
    /\ last_address # None => WatcherAlive
    /\ press_task.pc = "failed" => (~press_task_active /\ timer_tasks = <<>>)

\* C26: a signal for another address B that arrives while the watcher of A
\* is suspended in the discovery callback is not lost: after A's teardown B
\* is still the active address, its three duration timers are pending and a
\* release watcher is running for it.
TeardownStep == press_task.pc = "returned" /\ press_task'.pc # "returned"

\* B became the active address while the watcher was inside the callback,
\* not while it was still polling.
ArrivedDuringCallback ==
    /\ last_address \notin {None, press_task.address}
    /\ press_task.address \notin stale

PendingTimers(tasks, address) ==
    {i \in DOMAIN tasks : tasks[i].address = address /\ tasks[i].state = "sleeping"}

C26_SignalDuringCallbackKept ==
    [][(TeardownStep /\ ArrivedDuringCallback)
       => /\ last_address' = last_address
          /\ press_task'.pc = "sleep"
          /\ press_task'.address = last_address
          /\ Cardinality(PendingTimers(timer_tasks', last_address)) = 3]_vars

\* C29: whenever no press session is active (the active address is None) no
\* duration timer is pending and the timer list is empty; whenever a session
\* is active a release watcher is marked active.
C29_SessionAndTasksAgree ==
    /\ last_address = None => timer_tasks = <<>>
    /\ last_address # None => press_task_active

C29_Witness ==
    /\ last_address = None
    /\ order = <<"event", "discovery", "teardown">>
    /\ ~press_task_active

=============================================================================
